---- MODULE Spec2Model ----
(***************************************************************************)
(* Model of the graphics mapper HAL services of hardware_arv:              *)
(*   graphics/mapper/2.0/Mapper.cpp  (IMapper@2.0 over the GBM module)     *)
(*   graphics/mapper/4.0/Mapper.cpp  (IMapper@4.0 over drm_gralloc)        *)
(* One service instance is modelled; `ver` says which of the two mappers   *)
(* it is.  Native handles are small integers, 0 being nullptr.  The native *)
(* driver (the gbm_mod and drm entry points) is not part of these files:   *)
(* it is modelled by its registration table and lock table, and by the set *)
(* of results each entry point may return in a given driver state.         *)
(***************************************************************************)
EXTENDS Integers, Sequences, FiniteSets, TLC

VARIABLES
    ver,        \* "2.0" or "4.0": which Mapper.cpp this instance runs
    gbm,        \* 2.0: mModule->gbm after the constructor (0 = nullptr)
    kms_fd,     \* 4.0: the DRM node descriptor after the constructor (< 0: open failed)
    nextClone,  \* the next pointer native_handle_clone will return
    closed,     \* per handle: how many times native_handle_close+delete ran on it
    imported,   \* clones handed to a caller by a successful importBuffer
    registered, \* driver: handles in the registration table
    locked,     \* driver: handles currently locked for CPU access
    lk,         \* the lock / lockYCbCr call blocked in waitForever, if any
    ret         \* what the last call did and gave to its callback (NoRet while
                \* a call is still blocked)

vars == <<ver, gbm, kms_fd, nextClone, closed, imported,
          registered, locked, lk, ret>>

----------------------------------------------------------------------------
(* Bounds *)

MaxImports == 1     \* clones native_handle_clone makes in one behaviour
MaxClose == 2       \* close+delete rounds followed per handle

----------------------------------------------------------------------------
(* Handles *)

NullHandle == 0
ForeignHandle == MaxImports + 1   \* a caller's handle no importBuffer returned
NonNullHandles == 1 .. (MaxImports + 1)

(* Handles a caller can pass as `buffer` *)
BufferArgs == {NullHandle, ForeignHandle} \cup imported

Versions == {"2.0", "4.0"}

(* Fence::NO_FENCE wraps fd -1; dup of it stays -1 *)
NoFenceFd == 0 - 1

----------------------------------------------------------------------------
(* The native driver.  Its code is outside these files; what is modelled  *)
(* is the set of results an entry point may return in a driver state:     *)
(* 0 for success, 1 for any non-zero error code.                          *)

(* The constructor left a usable device: gbm_mod_init succeeded (2.0),    *)
(* the DRM node opened (4.0).                                             *)
DeviceValid == IF ver = "2.0" THEN gbm # 0 ELSE kms_fd >= 0

(* gbm_mod_register / drm_register: needs a device and a handle; may fail *)
(* for lack of resources even then.                                       *)
RegisterResults(h) ==
    IF DeviceValid /\ h # NullHandle THEN {0, 1} ELSE {1}

(* gbm_mod_unregister / drm_free: fails on a handle that is not in the    *)
(* registration table; may fail on one that is.                           *)
UnregisterResults(h) ==
    IF h \in registered THEN {0, 1} ELSE {1}

(* gbm_mod_lock / gbm_mod_lock_ycbcr / drm_lock *)
LockResults(h) ==
    IF h \in registered THEN {0, 1} ELSE {1}

(* gbm_mod_unlock / drm_unlock: succeeds on every registered handle,      *)
(* locked or not; fails on a handle the driver does not know.             *)
UnlockResults(h) ==
    IF h \in registered THEN {0} ELSE {1}

(* The CPU address the driver maps a buffer at: non-null, one per buffer *)
MappingOf(h) == h

----------------------------------------------------------------------------
(* Results of a call *)

NoInfo == [width |-> 0, height |-> 0, layerCount |-> 0, format |-> 0, usage |-> {}]
NoType == [name |-> "", value |-> 0]

(* A completed call: its name and buffer argument, the error and the      *)
(* values its callback (or return) carried, and the native calls it made, *)
(* in order, each with the handle it was made on.                         *)
NoRet ==
    [op |-> "none", arg |-> NullHandle, error |-> "NONE",
     outHandle |-> NullHandle,   \* importBuffer: the buffer given to the callback
     outData |-> 0,              \* lock: the mapping (0 = nullptr / empty layout)
     outFence |-> <<>>,          \* unlock: the fds of the release fence handle
     outDesc |-> <<>>,           \* createDescriptor: the encoded descriptor
     outMeta |-> <<>>,           \* get: the encoded metadata
     calls |-> <<>>,
     result |-> <<>>,            \* what the driver returned, when it was called
     fence |-> "n/a",            \* lock: the acquire fence when the driver was called
     ycbcr |-> FALSE,
     held |-> FALSE,             \* unlock: the driver held the buffer locked before
     warned |-> FALSE,           \* createDescriptor: invalid usage bits were logged
     info |-> NoInfo,
     mt |-> NoType]

Idle == [pc |-> "idle", h |-> NullHandle, ycbcr |-> FALSE, fenceFd |-> NoFenceFd,
         signalled |-> FALSE]

(* The model follows one caller: a call starts when the one before it   *)
(* has returned, so not while a lock call is blocked on its fence.       *)
Ready == lk.pc = "idle"

(* `calls` entries *)
Call(name, h) == <<name, h>>
Callback == <<"hidl_cb", NullHandle>>

(* native_handle_close + native_handle_delete on h: one more release of h *)
Release(h) ==
    IF h \in NonNullHandles THEN [closed EXCEPT ![h] = @ + 1] ELSE closed

----------------------------------------------------------------------------
(* Mapper::Mapper.  2.0: gbm_mod_init fills mModule->gbm or fails and     *)
(* leaves it nullptr.  4.0: open() returns a descriptor or -1.  Either    *)
(* way the failure is only logged and construction completes.             *)

KmsFds == {0 - 1, 3}

Init ==
    /\ ver \in Versions
    /\ \/ ver = "2.0" /\ gbm \in {0, 1} /\ kms_fd = 0 - 1
       \/ ver = "4.0" /\ gbm = 0 /\ kms_fd \in KmsFds
    /\ nextClone = 1
    /\ closed = [h \in NonNullHandles |-> 0]
    /\ imported = {}
    /\ registered = {}
    /\ locked = {}
    /\ lk = Idle
    /\ ret = NoRet

----------------------------------------------------------------------------
(* Mapper::importBuffer *)

(* Variant: the null check on the raw handle is missing *)
importRejects_never(rawHandle) == FALSE

(* !rawHandle.getNativeHandle() *)
importRejects(rawHandle) == rawHandle = NullHandle

(* native_handle_clone: a fresh handle, or nullptr when it fails *)
native_handle_clone(ok) == IF ok THEN nextClone ELSE NullHandle

(* Variant: only a negative result is taken for a failure *)
importGivesUp_neg(result) == result < 0

(* if (result != 0): the clone is closed, deleted and forgotten *)
importGivesUp(result) == result # 0

ImportBuffer ==
    /\ Ready
    /\ \E rawHandle \in {NullHandle, ForeignHandle}, cloneOk \in BOOLEAN :
        IF importRejects(rawHandle)
        THEN /\ ret' = [NoRet EXCEPT !.op = "importBuffer", !.arg = rawHandle,
                                     !.error = "BAD_BUFFER", !.calls = <<Callback>>]
             /\ UNCHANGED <<ver, gbm, kms_fd, nextClone, closed, imported,
                            registered, locked, lk>>
        ELSE /\ nextClone <= MaxImports
             /\ LET bufferHandle == native_handle_clone(cloneOk)
                    error0 == IF bufferHandle = NullHandle THEN "NO_RESOURCES" ELSE "NONE"
                IN \E result \in RegisterResults(bufferHandle) :
                     /\ nextClone' = IF cloneOk THEN nextClone + 1 ELSE nextClone
                     /\ IF importGivesUp(result)
                        THEN /\ closed' = Release(bufferHandle)
                             /\ UNCHANGED <<registered, imported>>
                             /\ ret' = [NoRet EXCEPT
                                    !.op = "importBuffer", !.arg = rawHandle,
                                    !.error = "NO_RESOURCES", !.outHandle = NullHandle,
                                    !.result = <<result>>,
                                    !.calls = <<Call("native_handle_clone", rawHandle),
                                                Call("register", bufferHandle),
                                                Call("native_handle_close", bufferHandle),
                                                Call("native_handle_delete", bufferHandle),
                                                Callback>>]
                        ELSE /\ registered' = registered \cup {bufferHandle}
                             /\ imported' = IF bufferHandle = NullHandle THEN imported
                                            ELSE imported \cup {bufferHandle}
                             /\ UNCHANGED closed
                             /\ ret' = [NoRet EXCEPT
                                    !.op = "importBuffer", !.arg = rawHandle,
                                    !.error = error0, !.outHandle = bufferHandle,
                                    !.result = <<result>>,
                                    !.calls = <<Call("native_handle_clone", rawHandle),
                                                Call("register", bufferHandle),
                                                Callback>>]
             /\ UNCHANGED <<ver, gbm, kms_fd, locked, lk>>

----------------------------------------------------------------------------
(* Mapper::freeBuffer *)

(* 2.0 keeps the result of gbm_mod_unregister; 4.0 calls drm_free and     *)
(* does not look at what it did.                                          *)
freeBufferSeen(v, result) == IF v = "2.0" THEN result ELSE 0

freeBufferError(v, bufferHandle, result) ==
    IF bufferHandle = NullHandle THEN "BAD_BUFFER"
    ELSE IF freeBufferSeen(v, result) # 0 THEN "UNSUPPORTED"
    ELSE "NONE"

FreeBuffer ==
    /\ Ready
    /\ \E buffer \in BufferArgs :
        IF buffer = NullHandle
        THEN /\ ret' = [NoRet EXCEPT !.op = "freeBuffer", !.arg = buffer,
                                     !.error = freeBufferError(ver, buffer, 0)]
             /\ UNCHANGED <<ver, gbm, kms_fd, nextClone, closed, imported,
                            registered, locked, lk>>
        ELSE /\ closed[buffer] < MaxClose
             /\ \E result \in UnregisterResults(buffer) :
                  LET error == freeBufferError(ver, buffer, result)
                  IN /\ registered' = IF result = 0 THEN registered \ {buffer}
                                      ELSE registered
                     /\ locked' = IF result = 0 THEN locked \ {buffer} ELSE locked
                     /\ closed' = IF error = "NONE" THEN Release(buffer) ELSE closed
                     /\ ret' = [NoRet EXCEPT
                            !.op = "freeBuffer", !.arg = buffer, !.error = error,
                            !.result = <<result>>,
                            !.calls = <<Call("unregister", buffer)>> \o
                                (IF error = "NONE"
                                 THEN <<Call("native_handle_close", buffer),
                                        Call("native_handle_delete", buffer)>>
                                 ELSE <<>>)]
             /\ UNCHANGED <<ver, gbm, kms_fd, nextClone, imported, lk>>

----------------------------------------------------------------------------
(* Acquire fences: getFenceFd, Fence::waitForever *)

(* A hidl_handle holding a fence: null, or a native handle with its fds *)
NullFence == [isNull |-> TRUE, fds |-> <<>>]
FenceArgs ==
    {NullFence,
     [isNull |-> FALSE, fds |-> <<7>>],
     [isNull |-> FALSE, fds |-> <<0 - 1>>],
     [isNull |-> FALSE, fds |-> <<7, 8>>]}

(* dup(2): another descriptor for the same fence, or -1 *)
dup(fd, ok) == IF ok THEN fd + 1 ELSE 0 - 1

getFenceFd(fenceHandle, dupOk) ==
    IF ~fenceHandle.isNull /\ Len(fenceHandle.fds) > 1
    THEN [error |-> "BAD_VALUE", fd |-> NoFenceFd]
    ELSE LET fenceFd == IF ~fenceHandle.isNull /\ Len(fenceHandle.fds) = 1
                        THEN fenceHandle.fds[1] ELSE 0 - 1
         IN IF fenceFd >= 0
            THEN IF dup(fenceFd, dupOk) < 0
                 THEN [error |-> "NO_RESOURCES", fd |-> NoFenceFd]
                 ELSE [error |-> "NONE", fd |-> dup(fenceFd, dupOk)]
            ELSE [error |-> "NONE", fd |-> fenceFd]

(* Variant: a wait that polls once and returns *)
waitForever_poll(fenceFd, signalled) == TRUE

(* Fence::waitForever returns at once for a fence without an fd and      *)
(* otherwise only when the fence has signalled.                          *)
waitForever(fenceFd, signalled) == fenceFd < 0 \/ signalled

FenceState(fenceFd, signalled) ==
    IF fenceFd < 0 THEN "no fence" ELSE IF signalled THEN "signalled" ELSE "pending"

----------------------------------------------------------------------------
(* Mapper::lock, Mapper::lockYCbCr (2.0 only).  The call is two steps:    *)
(* LockBegin runs up to waitForever, LockFinish runs once the wait is     *)
(* over.  The model follows one caller: its next call starts when this    *)
(* one has returned (Ready).                                              *)

(* Outcomes of dup that matter: it is called only on an fd >= 0 *)
DupOutcomes(fenceHandle) ==
    IF ~fenceHandle.isNull /\ Len(fenceHandle.fds) = 1 /\ fenceHandle.fds[1] >= 0
    THEN BOOLEAN ELSE {TRUE}

LockBegin ==
    /\ Ready
    /\ \E buffer \in BufferArgs, ycbcr \in (IF ver = "2.0" THEN BOOLEAN ELSE {FALSE}) :
        \E acquireFence \in (IF buffer = NullHandle THEN {NullFence} ELSE FenceArgs) :
        \E dupOk \in DupOutcomes(acquireFence) :
           LET f == getFenceFd(acquireFence, dupOk)
               op == IF ycbcr THEN "lockYCbCr" ELSE "lock"
           IN IF buffer = NullHandle
              THEN /\ ret' = [NoRet EXCEPT !.op = op, !.arg = buffer, !.ycbcr = ycbcr,
                                           !.error = "BAD_BUFFER", !.calls = <<Callback>>]
                   /\ UNCHANGED lk
              ELSE IF f.error # "NONE"
              THEN /\ ret' = [NoRet EXCEPT !.op = op, !.arg = buffer, !.ycbcr = ycbcr,
                                           !.error = f.error, !.calls = <<Callback>>]
                   /\ UNCHANGED lk
              ELSE /\ \E sig \in (IF f.fd >= 0 THEN BOOLEAN ELSE {FALSE}) :
                        lk' = [pc |-> "waiting", h |-> buffer, ycbcr |-> ycbcr,
                               fenceFd |-> f.fd, signalled |-> sig]
                   /\ ret' = NoRet
    /\ UNCHANGED <<ver, gbm, kms_fd, nextClone, closed, imported,
                   registered, locked>>

(* The fence the blocked call waits on signals *)
SignalFence ==
    /\ lk.pc = "waiting"
    /\ lk.fenceFd >= 0
    /\ ~lk.signalled
    /\ lk' = [lk EXCEPT !.signalled = TRUE]
    /\ UNCHANGED <<ver, gbm, kms_fd, nextClone, closed, imported,
                   registered, locked, ret>>

(* if (result != 0) the callback gets UNSUPPORTED and no mapping *)
lockError(result) == IF result # 0 THEN "UNSUPPORTED" ELSE "NONE"

LockFinish ==
    /\ lk.pc = "waiting"
    /\ waitForever(lk.fenceFd, lk.signalled)
    /\ \E result \in LockResults(lk.h) :
        /\ locked' = IF result = 0 THEN locked \cup {lk.h} ELSE locked
        /\ ret' = [NoRet EXCEPT
              !.op = IF lk.ycbcr THEN "lockYCbCr" ELSE "lock",
              !.arg = lk.h, !.ycbcr = lk.ycbcr,
              !.error = lockError(result), !.result = <<result>>,
              !.outData = IF lockError(result) = "NONE" THEN MappingOf(lk.h) ELSE 0,
              !.fence = FenceState(lk.fenceFd, lk.signalled),
              !.calls = <<Call("waitForever", lk.h), Call("lock", lk.h), Callback>>]
    /\ lk' = Idle
    /\ UNCHANGED <<ver, gbm, kms_fd, nextClone, closed, imported,
                   registered>>

----------------------------------------------------------------------------
(* Mapper::unlock, Mapper::flushLockedBuffer (4.0) *)

(* (Fence::NO_FENCE)->dup() *)
releaseFenceFd == NoFenceFd

(* Variant: the fd is wrapped without the fenceFd >= 0 test *)
getFenceHandle_always(fenceFd) == <<fenceFd>>

(* getFenceHandle: a handle with the fd when there is one, else null *)
getFenceHandle(fenceFd) == IF fenceFd >= 0 THEN <<fenceFd>> ELSE <<>>

(* What unlock and flushLockedBuffer share: the null check, the driver's  *)
(* unlock, and the release fence.                                         *)
DriverUnlock(op, buffer) ==
    IF buffer = NullHandle
    THEN /\ ret' = [NoRet EXCEPT !.op = op, !.arg = buffer, !.error = "BAD_BUFFER",
                                 !.calls = <<Callback>>]
         /\ UNCHANGED locked
    ELSE \E result \in UnlockResults(buffer) :
           /\ locked' = IF result = 0 THEN locked \ {buffer} ELSE locked
           /\ ret' = [NoRet EXCEPT
                 !.op = op, !.arg = buffer, !.held = buffer \in locked,
                 !.result = <<result>>,
                 !.error = IF result # 0 THEN "UNSUPPORTED" ELSE "NONE",
                 !.outFence = IF result # 0 THEN <<>> ELSE getFenceHandle(releaseFenceFd),
                 !.calls = <<Call("unlock", buffer), Callback>>]

Unlock ==
    /\ Ready
    /\ \E buffer \in BufferArgs : DriverUnlock("unlock", buffer)
    /\ UNCHANGED <<ver, gbm, kms_fd, nextClone, closed, imported,
                   registered, lk>>

FlushLockedBuffer ==
    /\ Ready
    /\ ver = "4.0"
    /\ \E buffer \in BufferArgs : DriverUnlock("flushLockedBuffer", buffer)
    /\ UNCHANGED <<ver, gbm, kms_fd, nextClone, closed, imported,
                   registered, lk>>

(* Mapper::rereadLockedBuffer (4.0): a null check and nothing else *)
RereadLockedBuffer ==
    /\ Ready
    /\ ver = "4.0"
    /\ \E buffer \in BufferArgs :
         ret' = [NoRet EXCEPT !.op = "rereadLockedBuffer", !.arg = buffer,
                              !.error = IF buffer = NullHandle THEN "BAD_BUFFER"
                                        ELSE "NONE"]
    /\ UNCHANGED <<ver, gbm, kms_fd, nextClone, closed, imported,
                   registered, locked, lk>>

----------------------------------------------------------------------------
(* Mapper::get, Mapper::set (4.0) *)

StandardName == "android.hardware.graphics.common.StandardMetadataType"
DATASPACE == 17     \* StandardMetadataType::DATASPACE
UNKNOWN == 0        \* Dataspace::UNKNOWN

MetadataTypes ==
    {[name |-> StandardName, value |-> DATASPACE],
     [name |-> StandardName, value |-> 16],
     [name |-> "vendor.arv.Metadata", value |-> DATASPACE]}

(* gralloc4::isStandardMetadataType: the type's name is the standard one *)
isStandardMetadataType(metadataType) == metadataType.name = StandardName

(* gralloc4::encodeDataspace: the value as a little-endian int32 *)
encodeDataspace(v) == [i \in 1 .. 4 |-> (v \div (256 ^ (i - 1))) % 256]

(* Variant: the value is compared without isStandardMetadataType *)
getSupports_anyName(metadataType) == metadataType.value = DATASPACE

(* The branch get takes for a non-null buffer *)
getSupports(metadataType) ==
    isStandardMetadataType(metadataType) /\ metadataType.value = DATASPACE

Get ==
    /\ Ready
    /\ ver = "4.0"
    /\ \E buffer \in BufferArgs, metadataType \in MetadataTypes :
         ret' = [NoRet EXCEPT
             !.op = "get", !.arg = buffer, !.mt = metadataType,
             !.error = IF buffer = NullHandle THEN "BAD_BUFFER"
                       ELSE IF getSupports(metadataType) THEN "NONE"
                       ELSE "UNSUPPORTED",
             !.outMeta = IF buffer # NullHandle /\ getSupports(metadataType)
                         THEN encodeDataspace(UNKNOWN) ELSE <<>>,
             !.calls = <<Callback>>]
    /\ UNCHANGED <<ver, gbm, kms_fd, nextClone, closed, imported,
                   registered, locked, lk>>

(* set looks at the buffer only and stores nothing *)
Set ==
    /\ Ready
    /\ ver = "4.0"
    /\ \E buffer \in BufferArgs, metadataType \in MetadataTypes :
         ret' = [NoRet EXCEPT
             !.op = "set", !.arg = buffer, !.mt = metadataType,
             !.error = IF buffer = NullHandle THEN "BAD_BUFFER" ELSE "UNSUPPORTED"]
    /\ UNCHANGED <<ver, gbm, kms_fd, nextClone, closed, imported,
                   registered, locked, lk>>

----------------------------------------------------------------------------
(* Mapper::createDescriptor *)

(* getValidBufferUsageMask, as the set of bit positions of the mask:      *)
(* CPU_READ_MASK 0-3, CPU_WRITE_MASK 4-7, GPU_TEXTURE 8,                  *)
(* GPU_RENDER_TARGET 9, COMPOSER_OVERLAY 11, COMPOSER_CLIENT_TARGET 12,   *)
(* PROTECTED 14, COMPOSER_CURSOR 15, VIDEO_ENCODER 16, CAMERA_OUTPUT 17,  *)
(* CAMERA_INPUT 18, RENDERSCRIPT 20, VIDEO_DECODER 22,                    *)
(* SENSOR_DIRECT_DATA 23, GPU_DATA_BUFFER 24, VENDOR_MASK 28-31,          *)
(* VENDOR_MASK_HI 48-63.                                                  *)
getValidBufferUsageMask ==
    (0 .. 9) \cup {11, 12} \cup (14 .. 18) \cup {20} \cup (22 .. 24)
        \cup (28 .. 31) \cup (48 .. 63)

(* A usage mask is the set of its bits *)
Usages == {{}, {0}, {8, 24}, {10}, {8, 10}, {33, 63}}

Infos ==
    [width : {0, 1, 2}, height : {0, 1, 2}, layerCount : {0, 1, 2, 3},
     format : {0, 1, 2}, usage : Usages]

(* Variant: the layer count is tested before the zero checks *)
createDescriptorError_layerFirst(descriptorInfo) ==
    IF descriptorInfo.layerCount # 1 THEN "UNSUPPORTED"
    ELSE IF descriptorInfo.width = 0 \/ descriptorInfo.height = 0 THEN "BAD_VALUE"
    ELSE IF descriptorInfo.format = 0 THEN "BAD_VALUE"
    ELSE "NONE"

(* The if / else-if chain on the descriptor's fields *)
createDescriptorError(descriptorInfo) ==
    IF descriptorInfo.width = 0 \/ descriptorInfo.height = 0
          \/ descriptorInfo.layerCount = 0
    THEN "BAD_VALUE"
    ELSE IF descriptorInfo.layerCount # 1 THEN "UNSUPPORTED"
    ELSE IF descriptorInfo.format = 0 THEN "BAD_VALUE"
    ELSE "NONE"

(* grallocEncodeBufferDescriptor (2.0) and encodeBufferDescriptorInfo     *)
(* (4.0) lay the fields out one after the other, the usage mask whole.    *)
EncodeDescriptor(descriptorInfo) ==
    <<descriptorInfo.width, descriptorInfo.height, descriptorInfo.layerCount,
      descriptorInfo.format, descriptorInfo.usage>>

(* What encodeBufferDescriptorInfo may return; the 2.0 encoder has no     *)
(* status to return.                                                      *)
EncodeResults == IF ver = "2.0" THEN {0} ELSE {0, 1}

CreateDescriptor ==
    /\ \E descriptorInfo \in Infos, encodeRet \in EncodeResults :
         LET error == createDescriptorError(descriptorInfo)
         IN ret' = [NoRet EXCEPT
                !.op = "createDescriptor", !.info = descriptorInfo,
                !.error = IF error = "NONE" /\ encodeRet # 0 THEN "BAD_VALUE" ELSE error,
                !.warned = error = "NONE"
                           /\ descriptorInfo.usage \ getValidBufferUsageMask # {},
                !.outDesc = IF error = "NONE" /\ encodeRet = 0
                            THEN EncodeDescriptor(descriptorInfo) ELSE <<>>,
                !.calls = (IF error = "NONE" THEN <<Call("encode", encodeRet)>>
                           ELSE <<>>) \o <<Callback>>]
    /\ UNCHANGED <<ver, gbm, kms_fd, nextClone, closed, imported,
                   registered, locked, lk>>

----------------------------------------------------------------------------
(* Specifications *)

(* The buffer lifecycle and the metadata accessors of one service *)
Next ==
    \/ ImportBuffer
    \/ FreeBuffer
    \/ LockBegin
    \/ SignalFence
    \/ LockFinish
    \/ Unlock
    \/ FlushLockedBuffer
    \/ RereadLockedBuffer
    \/ Get
    \/ Set

Spec == Init /\ [][Next]_vars

(* createDescriptor reads and writes no state of the service: its calls   *)
(* are checked on their own, over every descriptor of Infos.              *)
NextDesc == CreateDescriptor

SpecDesc == Init /\ [][NextDesc]_vars

----------------------------------------------------------------------------
(* Properties *)

IsCall(name) == ret.op = name
Called(name) == \E i \in 1 .. Len(ret.calls) : ret.calls[i][1] = name
DriverFailed == ret.result # <<>> /\ ret.result[1] # 0
DriverSucceeded == ret.result = <<0>>

(* C1: every clone a successful importBuffer returned is closed and       *)
(* deleted exactly once: never more than once, and once freeBuffer has    *)
(* been called on it, it has been released.                               *)
C1_ReleasedExactlyOnce ==
    \A h \in imported :
        /\ closed[h] <= 1
        /\ (IsCall("freeBuffer") /\ ret.arg = h) => closed[h] = 1

(* C2: importBuffer with a null native handle gives BAD_BUFFER and a null *)
(* handle to its callback, clones nothing, does not call the driver's     *)
(* register, and leaves the registration state as it was.                 *)
C2_NullImport ==
    [][(ret'.op = "importBuffer" /\ ret'.arg = NullHandle)
          => /\ ret'.error = "BAD_BUFFER"
             /\ ret'.outHandle = NullHandle
             /\ ret'.calls = <<Callback>>
             /\ ret'.result = <<>>
             /\ nextClone' = nextClone
             /\ registered' = registered
             /\ imported' = imported
             /\ closed' = closed]_vars

C2_Witness ==
    /\ IsCall("importBuffer")
    /\ ret.arg = NullHandle
    /\ ret.error = "BAD_BUFFER"
    /\ registered # {}

(* The clone importBuffer made in the call ret describes *)
ClonedHandle == ret.calls[2][2]

(* C3: when importBuffer has cloned the handle and register returns       *)
(* non-zero, the clone is closed and deleted before the callback, which   *)
(* gets NO_RESOURCES and a null handle, and the service keeps no clone;   *)
(* when register returns zero the callback gets NONE and the registered   *)
(* clone.                                                                 *)
C3_ImportOutcome ==
    (IsCall("importBuffer") /\ Called("register") /\ ClonedHandle # NullHandle)
        => /\ DriverFailed =>
                /\ ret.error = "NO_RESOURCES"
                /\ ret.outHandle = NullHandle
                /\ ret.calls = <<Call("native_handle_clone", ret.arg),
                                 Call("register", ClonedHandle),
                                 Call("native_handle_close", ClonedHandle),
                                 Call("native_handle_delete", ClonedHandle),
                                 Callback>>
                /\ closed[ClonedHandle] = 1
                /\ ClonedHandle \notin imported
                /\ ClonedHandle \notin registered
           /\ DriverSucceeded =>
                /\ ret.error = "NONE"
                /\ ret.outHandle = ClonedHandle
                /\ ClonedHandle \in registered
                /\ ClonedHandle \in imported
                /\ closed[ClonedHandle] = 0
           /\ \A c \in 1 .. (nextClone - 1) : c \in imported \/ closed[c] >= 1

C3_Witness ==
    /\ IsCall("importBuffer")
    /\ DeviceValid
    /\ DriverFailed
    /\ ClonedHandle # NullHandle
    /\ closed[ClonedHandle] = 1

(* C4: freeBuffer gives BAD_BUFFER for a null handle without calling the  *)
(* driver, UNSUPPORTED whenever the driver's unregister of a non-null     *)
(* handle fails, and NONE only when the unregister succeeded.             *)
C4_FreeBufferErrors ==
    IsCall("freeBuffer")
        => /\ ret.arg = NullHandle => (ret.error = "BAD_BUFFER" /\ ret.calls = <<>>)
           /\ (ret.arg # NullHandle /\ DriverFailed) => ret.error = "UNSUPPORTED"
           /\ ret.error = "NONE" => DriverSucceeded

(* C5: freeBuffer on a non-null handle that no importBuffer returned ends *)
(* with an error other than NONE and does not close or delete the handle. *)
C5_ForeignFree ==
    /\ closed[ForeignHandle] = 0
    /\ (IsCall("freeBuffer") /\ ret.arg = ForeignHandle) => ret.error # "NONE"

(* Two descriptors that differ in their usage bits at most *)
SameButUsage(a, b) ==
    /\ a.width = b.width
    /\ a.height = b.height
    /\ a.layerCount = b.layerCount
    /\ a.format = b.format

(* The result createDescriptor's encoder returned, where it was called *)
EncodeRet == ret.calls[1][2]

(* The error createDescriptor gives, class by class *)
C6_Classified ==
    IsCall("createDescriptor") =>
        LET i == ret.info
        IN /\ (i.width = 0 \/ i.height = 0 \/ i.layerCount = 0)
                => ret.error = "BAD_VALUE"
           /\ (i.width # 0 /\ i.height # 0 /\ i.layerCount >= 2)
                => ret.error = "UNSUPPORTED"
           /\ (i.layerCount = 1 /\ i.format = 0) => ret.error = "BAD_VALUE"
           /\ (i.width # 0 /\ i.height # 0 /\ i.layerCount = 1 /\ i.format # 0)
                => /\ ret.calls = <<Call("encode", EncodeRet), Callback>>
                   /\ ret.error = IF EncodeRet = 0 THEN "NONE" ELSE "BAD_VALUE"
                   /\ EncodeRet = 0 =>
                        ret.outDesc = <<i.width, i.height, i.layerCount, i.format, i.usage>>
           /\ ret.error # "NONE" => ret.outDesc = <<>>

(* Two calls in a row that differ in usage only end with the same error *)
C6_UsageBlind ==
    (/\ ret.op = "createDescriptor"
     /\ ret'.op = "createDescriptor"
     /\ SameButUsage(ret.info, ret'.info)
     /\ Called("encode") => ret.calls[1] = ret'.calls[1])
        => ret'.error = ret.error

(* C6: createDescriptor gives BAD_VALUE when width, height or layerCount  *)
(* is 0, UNSUPPORTED when width and height are non-zero and layerCount is *)
(* 2 or more, BAD_VALUE when layerCount is 1 and format is 0, and         *)
(* otherwise encodes the descriptor; two calls that differ only in their  *)
(* usage bits, known or not, give the same error.                         *)
C6_CreateDescriptor == [](C6_Classified) /\ [][C6_UsageBlind]_vars

C6_Witness ==
    /\ IsCall("createDescriptor")
    /\ ret.error = "NONE"
    /\ ret.warned
    /\ ret.outDesc[5] \ getValidBufferUsageMask # {}

C8_Get ==
    (IsCall("get") /\ ret.arg # NullHandle)
        => IF ret.mt = [name |-> StandardName, value |-> DATASPACE]
           THEN ret.error = "NONE" /\ ret.outMeta = <<0, 0, 0, 0>>
           ELSE ret.error = "UNSUPPORTED" /\ ret.outMeta = <<>>

C8_Witness ==
    /\ IsCall("get")
    /\ ret.arg \in locked
    /\ ret.mt = [name |-> StandardName, value |-> DATASPACE]
    /\ ret.error = "NONE"

(* C9: a lock or lockYCbCr call that reaches the driver does so only once *)
(* its acquire fence has signalled (or there is none), and nothing is     *)
(* given to the callback while it waits; if the driver's lock fails the   *)
(* callback gets UNSUPPORTED and no mapping, otherwise NONE and the       *)
(* driver's mapping.                                                      *)
C9_LockAfterFence ==
    /\ (lk.pc = "waiting" /\ ~waitForever(lk.fenceFd, lk.signalled)) => ret = NoRet
    /\ ((IsCall("lock") \/ IsCall("lockYCbCr")) /\ Called("lock"))
            => /\ ret.fence \in {"no fence", "signalled"}
               /\ ret.calls = <<Call("waitForever", ret.arg), Call("lock", ret.arg),
                                Callback>>
               /\ DriverFailed => (ret.error = "UNSUPPORTED" /\ ret.outData = 0)
               /\ DriverSucceeded
                    => (ret.error = "NONE" /\ ret.outData = MappingOf(ret.arg)
                        /\ ret.outData # 0)

C9_Witness ==
    /\ IsCall("lockYCbCr")
    /\ ret.fence = "signalled"
    /\ ret.error = "NONE"
    /\ ret.outData # 0

(* C10: after a failed device open at construction, importBuffer,         *)
(* freeBuffer, lock and unlock on a non-null handle all end with an error *)
(* other than NONE.                                                       *)
C10_DeadDevice ==
    (/\ ~DeviceValid
     /\ ret.op \in {"importBuffer", "freeBuffer", "lock", "lockYCbCr", "unlock"}
     /\ ret.arg # NullHandle)
        => ret.error # "NONE"

(* C11: in 4.0, flushLockedBuffer and rereadLockedBuffer leave the lock   *)
(* state as it was: a buffer the driver holds locked before the call is   *)
(* still held locked after it.                                            *)
C11_FlushKeepsLock ==
    [][(/\ ret'.op \in {"flushLockedBuffer", "rereadLockedBuffer"}
        /\ ret'.arg \in locked)
          => ret'.arg \in locked']_vars

(* What must not be done with the nullptr a failed clone leaves *)
NullCloneCalls ==
    {Call("register", NullHandle), Call("native_handle_close", NullHandle),
     Call("native_handle_delete", NullHandle)}

(* C12: when importBuffer gets a non-null handle and native_handle_clone  *)
(* returns null, register is not called with the null clone and nothing   *)
(* is closed or deleted; the callback gets NO_RESOURCES and a null        *)
(* handle, and the registration state stays as it was.                    *)
C12_CloneFailure ==
    [][(/\ ret'.op = "importBuffer"
        /\ ret'.arg # NullHandle
        /\ nextClone' = nextClone)
          => /\ \A i \in 1 .. Len(ret'.calls) : ret'.calls[i] \notin NullCloneCalls
             /\ ret'.error = "NO_RESOURCES"
             /\ ret'.outHandle = NullHandle
             /\ registered' = registered
             /\ closed' = closed]_vars

====
